---- MODULE Spec2Model ----
(***************************************************************************)
(* The rehearsal scheduler's API: band membership and the "find optimal    *)
(* rehearsal times" request, the availability routes, authentication and   *)
(* the user accounts.                                                      *)
(*                                                                         *)
(* The state is the database (Users, Bands, the UserBand join table and    *)
(* the Availabilities table) together with the last request handled and    *)
(* the response it got.  An action is one request running through the      *)
(* route's own stack: the express-validator chain, the validate            *)
(* middleware and the controller.  The band controllers read req.user,     *)
(* which the authentication layer in front of the routes is to supply;     *)
(* the requester of a band action is that user.  The authentication layer  *)
(* itself, and the way each router mounts it, is modelled with the user    *)
(* and auth routes further down.                                           *)
(*                                                                         *)
(* Time stamps are JavaScript time values: milliseconds since              *)
(* 1970-01-01T00:00Z.  The dates used lie in January 1970 so that they     *)
(* stay within TLC's integers.                                             *)
(***************************************************************************)
EXTENDS Integers, Sequences, FiniteSets, TLC

\* Number of rows of the Users table.
MaxUsers == 3

UserIds == 1..MaxUsers

\* Primary keys (well-formed UUIDs) used in requests: the one band of the
\* Bands table and a key no row has.
BandId == "band-1"
UnknownBandId == "band-0"

\* A well-formed user id no row of Users has.
UnknownUserId == MaxUsers + 1

MsPerMinute == 60000
MsPerHour == 60 * MsPerMinute
MsPerDay == 24 * MsPerHour

\* 1970-01-05 was a Monday.
Monday == 4 * MsPerDay
Mon1800 == Monday + 18 * MsPerHour
Mon1900 == Monday + 19 * MsPerHour
Wed2000 == Monday + 2 * MsPerDay + 20 * MsPerHour
Tuesday == Monday + MsPerDay
Tue1930 == Tuesday + 19 * MsPerHour + 30 * MsPerMinute

\* users, bands, availabilities, rehearsals: the rows of the tables (bands holds the
\* primary keys, bandRow the columns of each row the requests touch);
\* userBand: the users joined to each band by a UserBand row, bandAdmins
\* those of them joined with the role admin; lastLogin: whether the user's
\* lastLogin column is set; req, res: the last request and its response.
\* nodeEnv: the NODE_ENV the server process was started with; pending: the
\* register requests that have looked their email up and not yet created
\* their user.
VARIABLES users, bands, bandRow, userBand, bandAdmins, availabilities, rehearsals,
          lastLogin, nodeEnv, pending, req, res

vars == <<users, bands, bandRow, userBand, bandAdmins, availabilities, rehearsals,
          lastLogin, nodeEnv, pending, req, res>>

\* The tables.
db == <<users, bands, bandRow, userBand, bandAdmins, availabilities, rehearsals, lastLogin>>

----------------------------------------------------------------------------
(* Request values *)

\* A date field of a request body: absent, a string that is not ISO 8601,
\* an ISO 8601 calendar date-time ("1970-01-05T18:00Z") or an ISO 8601 week
\* date ("1970-W02-1"); ms is the instant the string denotes.
AbsentDate == [kind |-> "absent", ms |-> 0]
InvalidDate == [kind |-> "invalid", ms |-> 0]
IsoDate(t) == [kind |-> "iso", ms |-> t]
IsoWeekDate(t) == [kind |-> "isoWeek", ms |-> t]

\* Time values of Date objects: a finite number of milliseconds, or NaN
\* (an Invalid Date, which JSON renders as null).
NaN == [finite |-> FALSE, ms |-> 0]
Time(t) == [finite |-> TRUE, ms |-> t]

\* new Date(v): Date parses the calendar form; it parses neither a week
\* date nor a string that is no date, and new Date(undefined) is invalid.
newDate(v) == IF v.kind = "iso" THEN Time(v.ms) ELSE NaN

\* new Date(d.getTime() + n)
plus(d, n) == IF d.finite THEN Time(d.ms + n) ELSE NaN

\* An integer field of a request body: absent, or the integer n.
AbsentInt == [given |-> FALSE, n |-> 0]
IntValue(k) == [given |-> TRUE, n |-> k]

\* Bodies every field of which has the format its validator asks for.
WellFormedBodies ==
    [startDate : {IsoDate(Mon1800), IsoDate(Mon1900)},
     endDate : {IsoDate(Mon1900), IsoDate(Wed2000)},
     duration : {IntValue(30), IntValue(480)},
     minimumMembers : {IntValue(2)}]

BaseBody ==
    [startDate |-> IsoDate(Mon1800), endDate |-> IsoDate(Wed2000),
     duration |-> IntValue(30), minimumMembers |-> AbsentInt]

\* BaseBody with one field left out or given a value its validator refuses.
MalformedBodies ==
    {[BaseBody EXCEPT !.startDate = d] : d \in {AbsentDate, InvalidDate}}
      \cup {[BaseBody EXCEPT !.endDate = d] : d \in {AbsentDate, InvalidDate}}
      \cup {[BaseBody EXCEPT !.duration = d] :
                d \in {AbsentInt, IntValue(0), IntValue(29), IntValue(481)}}
      \cup {[BaseBody EXCEPT !.minimumMembers = IntValue(0)]}

\* BaseBody with its dates written as week dates: Monday of week 2 and
\* Wednesday of week 2 of 1970.
WeekDateBodies ==
    {[BaseBody EXCEPT !.startDate = IsoWeekDate(Monday)],
     [BaseBody EXCEPT !.startDate = IsoWeekDate(Monday),
                      !.endDate = IsoWeekDate(Monday + 2 * MsPerDay)]}

\* The week from Monday 1970-01-05, 30 minutes, at least two members.
WeekBody ==
    [startDate |-> IsoDate(Monday), endDate |-> IsoDate(Monday + 7 * MsPerDay),
     duration |-> IntValue(30), minimumMembers |-> IntValue(2)]

Bodies ==
    WellFormedBodies \cup {BaseBody, WeekBody} \cup WeekDateBodies \cup MalformedBodies

\* The find-optimal-times requests: every body for the band of the table,
\* and one request for a band that does not exist.
OptimalTimesRequests ==
    {[id |-> BandId, body |-> b] : b \in Bodies}
      \cup {[id |-> UnknownBandId, body |-> BaseBody]}

NoBody == [startDate |-> AbsentDate, endDate |-> AbsentDate,
           duration |-> AbsentInt, minimumMembers |-> AbsentInt]

----------------------------------------------------------------------------
(* Array helpers *)

Min(a, b) == IF a < b THEN a ELSE b
Max(a, b) == IF a > b THEN a ELSE b

\* Array.prototype.slice(start, end) with JavaScript's relative indices.
slice(arr, start, end) ==
    LET len == Len(arr)
        k == IF start < 0 THEN Max(len + start, 0) ELSE Min(start, len)
        final == IF end < 0 THEN Max(len + end, 0) ELSE Min(end, len)
    IN  SubSeq(arr, k + 1, final)

\* Array.prototype.slice(start): end defaults to the array's length.
sliceFrom(arr, start) == slice(arr, start, Len(arr))

Range(s) == {s[i] : i \in 1..Len(s)}

\* The orders in which a query without ORDER BY may return the rows S.
Orders(S) ==
    {f \in [1..Cardinality(S) -> S] : \A i, j \in 1..Cardinality(S) : f[i] = f[j] => i = j}

----------------------------------------------------------------------------
(* Database *)

\* The Availabilities rows the tables are seeded from: for users 1 and 2 a
\* recurring Monday 18:00-20:00 record, effective from Monday 1970-01-05,
\* without expiry.  Times of day are minutes after midnight.
AvailabilityPool ==
    {[userId |-> u, dayOfWeek |-> 1, startTime |-> 18 * 60, endTime |-> 20 * 60,
      isRecurring |-> TRUE, effectiveDate |-> Monday, expiryDate |-> <<>>] : u \in {1, 2}}

\* Two members' records for one week: user 2 is free every Tuesday
\* 19:00-21:00 from Monday 1970-01-05 on, user 3 on Tuesday 1970-01-06 only,
\* 19:30-20:30.
TuesdayRecords ==
    {[userId |-> 2, dayOfWeek |-> 2, startTime |-> 19 * 60, endTime |-> 21 * 60,
      isRecurring |-> TRUE, effectiveDate |-> Monday, expiryDate |-> <<>>],
     [userId |-> 3, dayOfWeek |-> 2, startTime |-> 19 * 60 + 30, endTime |-> 20 * 60 + 30,
      isRecurring |-> FALSE, effectiveDate |-> Tuesday, expiryDate |-> <<Tuesday + MsPerDay>>]}

\* Recurring Monday records that expire on Monday 1970-01-05: for both
\* members one effective from Thursday 1970-01-01 on.
ExpiringRecords ==
    {[userId |-> u, dayOfWeek |-> 1, startTime |-> 18 * 60, endTime |-> 20 * 60,
      isRecurring |-> TRUE, effectiveDate |-> 0, expiryDate |-> <<Monday>>] : u \in {2, 3}}

Init ==
    /\ users = [u \in UserIds |-> [role |-> IF u = 1 THEN "admin" ELSE "user", isActive |-> TRUE,
                                 email |-> u]]
    /\ bands = {BandId}
    /\ bandRow = [b \in bands |-> [name |-> "The Band", isActive |-> TRUE]]
    /\ \E m \in (SUBSET UserIds) \ {{}} : userBand = [b \in bands |-> m]
    /\ bandAdmins = userBand
    /\ availabilities \in SUBSET AvailabilityPool
    /\ rehearsals = {}
    /\ lastLogin = [u \in UserIds |-> FALSE]
    /\ nodeEnv = "production"
    /\ pending = {}
    /\ req = [op |-> "none", user |-> 0, id |-> "", userId |-> 0, body |-> NoBody]
    /\ res = [status |-> 0, message |-> "", suggestedTimes |-> <<>>]

----------------------------------------------------------------------------
(* Model layer *)

\* The accessors Band.belongsToMany(User, {as: 'members'}) puts on a Band
\* instance.  Calling any other name on it throws a TypeError.
BandAccessors ==
    {"getMembers", "countMembers", "hasMember", "hasMembers", "setMembers",
     "addMember", "addMembers", "removeMember", "removeMembers", "createMember"}

\* Band.findByPk(id): the row exists.
findByPk(id) == id \in bands

\* countMembers taken for hasMember: the band has a member at all.
hasAnyMember(id, user) == userBand[id] # {}

\* band.hasMember(user): a UserBand row joins the band and the user.
hasMember(id, user) == user \in userBand[id]

----------------------------------------------------------------------------
(* POST /api/bands/:id/optimal-times *)

\* express-validator's isISO8601, isInt({min, max}) and isInt({min}).
isISO8601(v) == v.kind \in {"iso", "isoWeek"}
isInt(v, min, max) == v.given /\ min <= v.n /\ v.n <= max
isIntMin(v, min) == v.given /\ min <= v.n

\* The fields of the body the route's validation chain reports.
optimalTimesErrors(body) ==
    {f \in {"startDate", "endDate", "duration", "minimumMembers"} :
        \/ f = "startDate" /\ ~isISO8601(body.startDate)
        \/ f = "endDate" /\ ~isISO8601(body.endDate)
        \/ f = "duration" /\ ~isInt(body.duration, 30, 480)
        \/ f = "minimumMembers" /\ body.minimumMembers.given
                                /\ ~isIntMin(body.minimumMembers, 1)}

\* The validate middleware: the request goes on to the controller only
\* when the chain reported nothing; otherwise it is answered 400.
validate(errors) == errors = {}

Response(status, message) ==
    [status |-> status, message |-> message, suggestedTimes |-> <<>>]

\* suggestedTimes with the first slot's availableMembers sliced one too far,
\* so that it keeps the last member.
suggestedTimesKeepLast(startDate, duration, members) ==
    << [startTime |-> newDate(startDate),
        endTime |-> plus(newDate(startDate), duration * MsPerMinute),
        availableMembers |-> slice(members, 0, Len(members)),
        unavailableMembers |-> sliceFrom(members, -1)],
       [startTime |-> plus(newDate(startDate), 24 * 60 * MsPerMinute),
        endTime |-> plus(newDate(startDate), 24 * 60 * MsPerMinute + duration * MsPerMinute),
        availableMembers |-> members,
        unavailableMembers |-> <<>>] >>

\* The placeholder list the controller answers with: the first slot starts
\* at startDate, the second 24 hours later.
suggestedTimes(startDate, duration, members) ==
    << [startTime |-> newDate(startDate),
        endTime |-> plus(newDate(startDate), duration * MsPerMinute),
        availableMembers |-> slice(members, 0, Len(members) - 1),
        unavailableMembers |-> sliceFrom(members, -1)],
       [startTime |-> plus(newDate(startDate), 24 * 60 * MsPerMinute),
        endTime |-> plus(newDate(startDate), 24 * 60 * MsPerMinute + duration * MsPerMinute),
        availableMembers |-> members,
        unavailableMembers |-> <<>>] >>

\* The controller, for the requester user (req.user), the band id of the
\* path and the body; members is what band.getMembers() returns.
findOptimalRehearsalTimes(user, id, body, members) ==
    IF \/ body.startDate.kind = "absent"
       \/ body.endDate.kind = "absent"
       \/ ~body.duration.given \/ body.duration.n = 0
    THEN Response(400, "Start date, end date, and rehearsal duration (in minutes) are required")
    ELSE IF ~findByPk(id)
    THEN Response(404, "Band not found")
    ELSE IF users[user].role # "admin" /\ ~hasMember(id, user)
    THEN Response(403, "You do not have access to this band")
    ELSE [status |-> 200, message |-> "Optimal rehearsal times found",
          suggestedTimes |->
              suggestedTimes(body.startDate, body.duration.n, members)]

\* The route with a controller that also saves its first suggestion as a
\* rehearsal of the band.
FindOptimalRehearsalTimesSaving ==
    \E user \in UserIds, r \in OptimalTimesRequests :
        /\ req' = [op |-> "findOptimalRehearsalTimes", user |-> user, id |-> r.id,
                   userId |-> 0, body |-> r.body]
        /\ IF ~validate(optimalTimesErrors(r.body))
           THEN res' = Response(400, "Validation failed")
           ELSE \/ \E members \in Orders(IF findByPk(r.id) THEN userBand[r.id] ELSE {}) :
                      res' = findOptimalRehearsalTimes(user, r.id, r.body, members)
                \/ res' = Response(500, "Error finding optimal rehearsal times")
        /\ rehearsals' = IF res'.status = 200
                         THEN rehearsals \cup {[bandId |-> r.id, startTime |-> res'.suggestedTimes[1].startTime]}
                         ELSE rehearsals
        /\ UNCHANGED <<users, bands, bandRow, userBand, bandAdmins, availabilities, lastLogin>>
        /\ UNCHANGED <<nodeEnv, pending>>

FindOptimalRehearsalTimes ==
    \E user \in UserIds, r \in OptimalTimesRequests :
        /\ req' = [op |-> "findOptimalRehearsalTimes", user |-> user, id |-> r.id,
                   userId |-> 0, body |-> r.body]
        /\ IF ~validate(optimalTimesErrors(r.body))
           THEN res' = Response(400, "Validation failed")
           ELSE \/ \E members \in Orders(IF findByPk(r.id) THEN userBand[r.id] ELSE {}) :
                      res' = findOptimalRehearsalTimes(user, r.id, r.body, members)
                \* a query the database rejects ends in the catch block
                \/ res' = Response(500, "Error finding optimal rehearsal times")
        /\ UNCHANGED <<users, bands, bandRow, userBand, bandAdmins, availabilities, rehearsals, lastLogin>>
        /\ UNCHANGED <<nodeEnv, pending>>

----------------------------------------------------------------------------
(* DELETE /api/bands/:id/members/:userId *)


\* The controller's answer; the UserBand row goes exactly when it is 200.
removeMember(user, id, userId) ==
    IF ~findByPk(id)
    THEN Response(404, "Band not found")
    ELSE IF users[user].role # "admin" /\ user # userId /\ "getMember" \notin BandAccessors
    THEN Response(500, "Error removing member from band")
    ELSE IF userId \notin DOMAIN users
    THEN Response(404, "User not found")
    ELSE IF ~hasMember(id, userId)
    THEN Response(400, "User is not a member of this band")
    ELSE IF userId # user /\ "getMember" \notin BandAccessors
    THEN Response(500, "Error removing member from band")
    ELSE Response(200, "Member removed from band successfully")

RemoveMember ==
    \E user \in UserIds, id \in {BandId, UnknownBandId}, userId \in UserIds \cup {UnknownUserId} :
        /\ req' = [op |-> "removeMember", user |-> user, id |-> id,
                   userId |-> userId, body |-> NoBody]
        /\ res' = removeMember(user, id, userId)
        /\ userBand' = IF res'.status = 200
                       THEN [userBand EXCEPT ![id] = @ \ {userId}]
                       ELSE userBand
        /\ bandAdmins' = IF res'.status = 200
                         THEN [bandAdmins EXCEPT ![id] = @ \ {userId}]
                         ELSE bandAdmins
        /\ UNCHANGED <<users, bands, bandRow, availabilities, rehearsals, lastLogin>>
        /\ UNCHANGED <<nodeEnv, pending>>

----------------------------------------------------------------------------
(* PUT and DELETE /api/bands/:id, POST /api/bands/:id/members and           *)
(* PUT /api/bands/:id/members/:userId                                      *)

\* All four controllers let an application admin pass and, for any other
\* requester, call band.getMember(req.user.id) to read the requester's role
\* in the band.  The association defines no accessor of that name, so the
\* call throws and the catch block answers 500; were it defined, a
\* requester without the role admin in the band would be answered 403.
\* The outcome is "pass", "throw" or "forbid".
bandAdminCheck(user, id) ==
    IF users[user].role = "admin" THEN "pass"
    ELSE IF "getMember" \notin BandAccessors THEN "throw"
    ELSE IF user \notin bandAdmins[id] THEN "forbid"
    ELSE "pass"

\* validator.js isLength({min, max})
isLength(str, min, max) == min <= Len(str) /\ Len(str) <= max

\* The name of an update body: "" stands for a body without name.
updateBandErrors(body) ==
    {f \in {"name"} : body.name # "" /\ ~isLength(body.name, 2, 100)}

updateBand(user, id, body) ==
    IF ~findByPk(id)
    THEN Response(404, "Band not found")
    ELSE IF bandAdminCheck(user, id) = "throw"
    THEN Response(500, "Error updating band")
    ELSE IF bandAdminCheck(user, id) = "forbid"
    THEN Response(403, "Only band admins can update band details")
    ELSE Response(200, "Band updated successfully")

UpdateBandRequests ==
    {[id |-> BandId, body |-> [name |-> n]] : n \in {"", "A", "The New Band"}}
      \cup {[id |-> UnknownBandId, body |-> [name |-> ""]]}

UpdateBand ==
    \E user \in UserIds, r \in UpdateBandRequests :
        /\ req' = [op |-> "updateBand", user |-> user, id |-> r.id, userId |-> 0,
                   body |-> r.body]
        /\ res' = IF ~validate(updateBandErrors(r.body))
                  THEN Response(400, "Validation failed")
                  ELSE updateBand(user, r.id, r.body)
        \* name: name || band.name
        /\ bandRow' = IF res'.status = 200 /\ r.body.name # ""
                      THEN [bandRow EXCEPT ![r.id].name = r.body.name]
                      ELSE bandRow
        /\ UNCHANGED <<users, bands, userBand, bandAdmins, availabilities, rehearsals, lastLogin>>
        /\ UNCHANGED <<nodeEnv, pending>>

deleteBand(user, id) ==
    IF ~findByPk(id)
    THEN Response(404, "Band not found")
    ELSE IF bandAdminCheck(user, id) = "throw"
    THEN Response(500, "Error deactivating band")
    ELSE IF bandAdminCheck(user, id) = "forbid"
    THEN Response(403, "Only band admins can delete the band")
    ELSE Response(200, "Band deactivated successfully")

DeleteBand ==
    \E user \in UserIds, id \in {BandId, UnknownBandId} :
        /\ req' = [op |-> "deleteBand", user |-> user, id |-> id, userId |-> 0,
                   body |-> NoBody]
        /\ res' = deleteBand(user, id)
        /\ bandRow' = IF res'.status = 200
                      THEN [bandRow EXCEPT ![id].isActive = FALSE]
                      ELSE bandRow
        /\ UNCHANGED <<users, bands, userBand, bandAdmins, availabilities, rehearsals, lastLogin>>
        /\ UNCHANGED <<nodeEnv, pending>>

\* The role of a body: "" stands for a body without role.
roleErrors(role, optional) ==
    {f \in {"role"} : ~(optional /\ role = "") /\ role \notin {"admin", "member"}}

addMember(user, id, body) ==
    IF ~findByPk(id)
    THEN Response(404, "Band not found")
    ELSE IF bandAdminCheck(user, id) = "throw"
    THEN Response(500, "Error adding member to band")
    ELSE IF bandAdminCheck(user, id) = "forbid"
    THEN Response(403, "Only band admins can add members")
    ELSE IF body.userId \notin DOMAIN users
    THEN Response(404, "User not found")
    ELSE IF hasMember(id, body.userId)
    THEN Response(400, "User is already a member of this band")
    ELSE Response(201, "Member added to band successfully")

AddMemberRequests ==
    {[id |-> BandId, body |-> [userId |-> u, role |-> r]] :
        u \in UserIds \cup {UnknownUserId}, r \in {"", "admin", "member"}}
      \cup {[id |-> BandId, body |-> [userId |-> 1, role |-> "owner"]],
            [id |-> UnknownBandId, body |-> [userId |-> 1, role |-> ""]]}

AddMember ==
    \E user \in UserIds, r \in AddMemberRequests :
        /\ req' = [op |-> "addMember", user |-> user, id |-> r.id, userId |-> 0,
                   body |-> r.body]
        /\ res' = IF ~validate(roleErrors(r.body.role, TRUE))
                  THEN Response(400, "Validation failed")
                  ELSE addMember(user, r.id, r.body)
        \* band.addMember(user, { through: { role: role || 'member' } })
        /\ userBand' = IF res'.status = 201
                       THEN [userBand EXCEPT ![r.id] = @ \cup {r.body.userId}]
                       ELSE userBand
        /\ bandAdmins' = IF res'.status = 201 /\ r.body.role = "admin"
                         THEN [bandAdmins EXCEPT ![r.id] = @ \cup {r.body.userId}]
                         ELSE bandAdmins
        /\ UNCHANGED <<users, bands, bandRow, availabilities, rehearsals, lastLogin>>
        /\ UNCHANGED <<nodeEnv, pending>>

\* After the requester's check the controller reads the member's role with
\* band.getMember(userId) too, which throws for every requester.
updateMemberRole(user, id, userId, body) ==
    IF body.role \notin {"admin", "member"}
    THEN Response(400, "Invalid role. Role must be either \"admin\" or \"member\"")
    ELSE IF ~findByPk(id)
    THEN Response(404, "Band not found")
    ELSE IF bandAdminCheck(user, id) = "throw"
    THEN Response(500, "Error updating member role")
    ELSE IF bandAdminCheck(user, id) = "forbid"
    THEN Response(403, "Only band admins can update member roles")
    ELSE IF userId \notin DOMAIN users
    THEN Response(404, "User not found")
    ELSE IF "getMember" \notin BandAccessors
    THEN Response(500, "Error updating member role")
    ELSE IF ~hasMember(id, userId)
    THEN Response(400, "User is not a member of this band")
    ELSE IF userId \in bandAdmins[id] /\ body.role = "member"
                                      /\ Cardinality(bandAdmins[id]) <= 1
    THEN Response(400, "Cannot demote the last admin of the band")
    ELSE Response(200, "Member role updated successfully")

UpdateMemberRoleRequests ==
    {[id |-> BandId, userId |-> u, body |-> [role |-> r]] :
        u \in UserIds \cup {UnknownUserId}, r \in {"admin", "member"}}
      \cup {[id |-> BandId, userId |-> 1, body |-> [role |-> ""]],
            [id |-> UnknownBandId, userId |-> 1, body |-> [role |-> "member"]]}

UpdateMemberRole ==
    \E user \in UserIds, r \in UpdateMemberRoleRequests :
        /\ req' = [op |-> "updateMemberRole", user |-> user, id |-> r.id,
                   userId |-> r.userId, body |-> r.body]
        /\ res' = IF ~validate(roleErrors(r.body.role, FALSE))
                  THEN Response(400, "Validation failed")
                  ELSE updateMemberRole(user, r.id, r.userId, r.body)
        /\ bandAdmins' = IF res'.status = 200
                         THEN [bandAdmins EXCEPT ![r.id] =
                                  IF r.body.role = "admin" THEN @ \cup {r.userId}
                                                           ELSE @ \ {r.userId}]
                         ELSE bandAdmins
        /\ UNCHANGED <<users, bands, bandRow, userBand, availabilities, rehearsals, lastLogin>>
        /\ UNCHANGED <<nodeEnv, pending>>

\* A band with any roster and at least one member with the role admin.
\* The attributes of the Band model, and those of them that are
\* allowNull: false and have no default value.
BandAttributes ==
    {"id", "name", "description", "genre", "logoUrl", "website", "contactEmail",
     "contactPhone", "isActive", "ownerId", "defaultReminderHours", "defaultLocation"}
BandNotNull == {"name", "ownerId"}

\* The keys of the object createBand hands to Band.create.  The route's
\* validators see to it that name has a value; createdBy is req.user.id.
createBandValues ==
    {"name", "description", "genre", "location", "contactEmail", "contactPhone",
     "logoUrl", "createdBy"}

\* The id Band.create gives the new row.
NewBandId == "band-2"

\* The name of a create body: "" stands for a body without name.
CreateBandBodies == {[name |-> n] : n \in {"", "A", "The New Band"}}

createBandErrors(body) ==
    {f \in {"name"} : body.name = "" \/ ~isLength(body.name, 2, 100)}

\* Band.create keeps the keys that are attributes of the model and throws
\* when an attribute that must not be null is left without a value; the
\* catch block answers.
createBand(user, body) ==
    IF ~(BandNotNull \subseteq createBandValues \cap BandAttributes)
    THEN Response(500, "Error creating band")
    ELSE Response(201, "Band created successfully")

\* POST /api/bands
CreateBand ==
    \E user \in UserIds, b \in CreateBandBodies :
        /\ NewBandId \notin bands
        /\ req' = [op |-> "createBand", user |-> user, id |-> "", userId |-> 0, body |-> b]
        /\ res' = IF ~validate(createBandErrors(b))
                  THEN Response(400, "Validation failed")
                  ELSE createBand(user, b)
        /\ bands' = IF res'.status = 201 THEN bands \cup {NewBandId} ELSE bands
        /\ bandRow' = IF res'.status = 201
                      THEN bandRow @@ (NewBandId :> [name |-> b.name, isActive |-> TRUE])
                      ELSE bandRow
        \* band.addMember(req.user, { through: { role: 'admin' } })
        /\ userBand' = IF res'.status = 201
                       THEN userBand @@ (NewBandId :> {user})
                       ELSE userBand
        /\ bandAdmins' = IF res'.status = 201
                         THEN bandAdmins @@ (NewBandId :> {user})
                         ELSE bandAdmins
        /\ UNCHANGED <<users, availabilities, rehearsals, lastLogin>>
        /\ UNCHANGED <<nodeEnv, pending>>

BandInit ==
    /\ users = [u \in UserIds |-> [role |-> IF u = 1 THEN "admin" ELSE "user", isActive |-> TRUE,
                                 email |-> u]]
    /\ bands = {BandId}
    /\ bandRow = [b \in bands |-> [name |-> "The Band", isActive |-> TRUE]]
    /\ \E m \in (SUBSET UserIds) \ {{}} : userBand = [b \in bands |-> m]
    /\ \E a \in (SUBSET userBand[BandId]) \ {{}} : bandAdmins = [b \in bands |-> a]
    /\ availabilities = {}
    /\ rehearsals = {}
    /\ lastLogin = [u \in UserIds |-> FALSE]
    /\ nodeEnv = "production"
    /\ pending = {}
    /\ req = [op |-> "none", user |-> 0, id |-> "", userId |-> 0, body |-> NoBody]
    /\ res = [status |-> 0, message |-> "", suggestedTimes |-> <<>>]

BandNext ==
    \/ UpdateBand \/ DeleteBand \/ AddMember \/ RemoveMember \/ UpdateMemberRole
    \/ CreateBand

BandSpec == BandInit /\ [][BandNext]_vars

----------------------------------------------------------------------------
(* POST /api/availability and PUT /api/availability/:id *)

\* Bodies of a create request.  A one-time record is given by startTime and
\* endTime, a recurring one by dayOfWeek, start and end hour and minute,
\* effectiveDate and, optionally, expiryDate.
NoFields ==
    [type |-> "", startTime |-> AbsentDate, endTime |-> AbsentDate,
     dayOfWeek |-> AbsentInt, startHour |-> AbsentInt, startMinute |-> AbsentInt,
     endHour |-> AbsentInt, endMinute |-> AbsentInt,
     effectiveDate |-> AbsentDate, expiryDate |-> AbsentDate]

OneTimeBodies ==
    {[NoFields EXCEPT !.type = "one-time", !.startTime = s, !.endTime = e] :
        s \in {IsoDate(Mon1800), IsoDate(Mon1900)},
        e \in {AbsentDate, IsoDate(Mon1800), IsoDate(Mon1900)}}

RecurringBodies ==
    {[NoFields EXCEPT !.type = "recurring", !.dayOfWeek = IntValue(1),
                      !.startHour = sh, !.startMinute = IntValue(0),
                      !.endHour = eh, !.endMinute = em,
                      !.effectiveDate = IsoDate(Monday), !.expiryDate = x] :
        sh \in {IntValue(18), IntValue(20)},
        eh \in {IntValue(18), IntValue(20), IntValue(24)},
        em \in {IntValue(0), IntValue(30)},
        x \in {AbsentDate, IsoDate(0), IsoDate(Tuesday)}}

CreateBodies ==
    OneTimeBodies \cup RecurringBodies \cup {[NoFields EXCEPT !.type = "weekly"]}

\* Bodies of an update request: every field may be left out.
UpdateBodies ==
    {[NoFields EXCEPT !.startTime = s, !.endTime = e, !.startHour = sh,
                      !.endHour = eh, !.effectiveDate = f, !.expiryDate = x] :
        s \in {AbsentDate, IsoDate(Mon1900)},
        e \in {AbsentDate, IsoDate(Mon1800)},
        sh \in {AbsentInt, IntValue(20)},
        eh \in {AbsentInt, IntValue(18)},
        f \in {AbsentDate, IsoDate(Tuesday)},
        x \in {AbsentDate, IsoDate(Monday)}}

\* The id (a well-formed UUID) of the path of an update request.
AvailabilityId == "availability-1"

\* a <= b on two Date objects: false when either is an Invalid Date.
dateLeq(a, b) == a.finite /\ b.finite /\ a.ms <= b.ms

\* req.body.f is given (a non-empty string, so truthy).
given(v) == v.kind # "absent"

\* The fields the validation chain of POST / reports.  The chains after
\* .if(body('type').equals(t)) run only for a body of type t; optional()
\* skips a field that is not given.
createAvailabilityErrors(body) ==
    {f \in DOMAIN NoFields :
        \/ f = "type" /\ body.type \notin {"one-time", "recurring"}
        \/ /\ body.type = "one-time"
           /\ \/ f = "startTime" /\ ~isISO8601(body.startTime)
              \/ f = "endTime" /\ \/ ~isISO8601(body.endTime)
                                  \/ dateLeq(newDate(body.endTime), newDate(body.startTime))
        \/ /\ body.type = "recurring"
           /\ \/ f = "dayOfWeek" /\ ~isInt(body.dayOfWeek, 0, 6)
              \/ f = "startHour" /\ ~isInt(body.startHour, 0, 23)
              \/ f = "startMinute" /\ ~isInt(body.startMinute, 0, 59)
              \/ f = "endHour" /\ ~isInt(body.endHour, 0, 23)
              \/ f = "endMinute" /\ ~isInt(body.endMinute, 0, 59)
              \/ f = "effectiveDate" /\ ~isISO8601(body.effectiveDate)
              \/ f = "expiryDate" /\ given(body.expiryDate)
                    /\ \/ ~isISO8601(body.expiryDate)
                       \/ dateLeq(newDate(body.expiryDate), newDate(body.effectiveDate))}

\* The fields the validation chain of PUT /:id reports: every field is
\* optional, and endTime and expiryDate are compared with startTime and
\* effectiveDate only when the body gives those too.
updateAvailabilityErrors(body) ==
    {f \in DOMAIN NoFields :
        \/ f = "startTime" /\ given(body.startTime) /\ ~isISO8601(body.startTime)
        \/ f = "endTime" /\ given(body.endTime)
              /\ \/ ~isISO8601(body.endTime)
                 \/ /\ given(body.startTime)
                    /\ dateLeq(newDate(body.endTime), newDate(body.startTime))
        \/ f = "dayOfWeek" /\ body.dayOfWeek.given /\ ~isInt(body.dayOfWeek, 0, 6)
        \/ f = "startHour" /\ body.startHour.given /\ ~isInt(body.startHour, 0, 23)
        \/ f = "startMinute" /\ body.startMinute.given /\ ~isInt(body.startMinute, 0, 59)
        \/ f = "endHour" /\ body.endHour.given /\ ~isInt(body.endHour, 0, 23)
        \/ f = "endMinute" /\ body.endMinute.given /\ ~isInt(body.endMinute, 0, 59)
        \/ f = "effectiveDate" /\ given(body.effectiveDate) /\ ~isISO8601(body.effectiveDate)
        \/ f = "expiryDate" /\ given(body.expiryDate)
              /\ \/ ~isISO8601(body.expiryDate)
                 \/ /\ given(body.effectiveDate)
                    /\ dateLeq(newDate(body.expiryDate), newDate(body.effectiveDate))}

\* The validators of the Availability model, which run when a row is saved:
\* endTime's isAfterStart and expiryDate's isAfterEffective (skipped for a
\* null).  The model has no hour or minute attribute.
isAfterStart(value, startTime) ==
    ~(given(value) /\ given(startTime) /\ value.ms <= startTime.ms)

isAfterEffective(value, effectiveDate) ==
    ~(given(value) /\ dateLeq(newDate(value), newDate(effectiveDate)))

\* The controllers are placeholders: they answer with the body and touch no
\* table.
CreateAvailability ==
    \E b \in CreateBodies :
        /\ req' = [op |-> "createAvailability", user |-> 0, id |-> "", userId |-> 0, body |-> b]
        /\ res' = IF ~validate(createAvailabilityErrors(b))
                  THEN Response(400, "Validation failed")
                  ELSE Response(201, "Create availability endpoint - To be implemented")
        /\ UNCHANGED db
        /\ UNCHANGED <<nodeEnv, pending>>

UpdateAvailability ==
    \E b \in UpdateBodies :
        /\ req' = [op |-> "updateAvailability", user |-> 0, id |-> AvailabilityId,
                   userId |-> 0, body |-> b]
        /\ res' = IF ~validate(updateAvailabilityErrors(b))
                  THEN Response(400, "Validation failed")
                  ELSE Response(200, "Update availability endpoint - To be implemented")
        /\ UNCHANGED db
        /\ UNCHANGED <<nodeEnv, pending>>

AvailabilityNext == CreateAvailability \/ UpdateAvailability

AvailabilitySpec == Init /\ [][AvailabilityNext]_vars

----------------------------------------------------------------------------
(* Authentication, /api/auth and /api/users *)

\* What a request carries as its token: no Authorization header, a header
\* that does not start with "Bearer ", a token whose signature does not
\* verify, an expired token, or a token the server signed for the user id
\* and which has not expired.
NoToken == [kind |-> "none", id |-> 0]

Tokens ==
    {NoToken, [kind |-> "basic", id |-> 0], [kind |-> "forged", id |-> 1],
     [kind |-> "expired", id |-> 2]}
      \cup {[kind |-> "signed", id |-> u] : u \in UserIds \cup {UnknownUserId}}

NoResponse == Response(0, "")

\* The middleware authenticate(allowedRoles) returns, run on a request with
\* the token t: it calls next with req.user set, or it responds.
authenticate(allowedRoles, t) ==
    IF t.kind \in {"none", "basic"}
    THEN [next |-> FALSE, user |-> 0, res |-> Response(401, "Authentication required")]
    ELSE IF t.kind # "signed"
    THEN [next |-> FALSE, user |-> 0, res |-> Response(401, "Invalid or expired token")]
    ELSE IF t.id \notin DOMAIN users
    THEN [next |-> FALSE, user |-> 0, res |-> Response(401, "User not found")]
    ELSE IF ~users[t.id].isActive
    THEN [next |-> FALSE, user |-> 0, res |-> Response(401, "Account is inactive")]
    ELSE IF allowedRoles # {} /\ users[t.id].role \notin allowedRoles
    THEN [next |-> FALSE, user |-> 0, res |-> Response(403, "Access denied")]
    ELSE [next |-> TRUE, user |-> t.id, res |-> NoResponse]

\* router.use(authenticate) mounts the factory itself.  Express calls
\* authenticate(req, res, next): the request is taken for allowedRoles and
\* the middleware is returned, not run, so nothing calls next and nothing
\* responds.
routerUseAuthenticate(t) ==
    [next |-> FALSE, user |-> 0, res |-> NoResponse]

\* Any request to /api/bands, /api/rehearsals, /api/availability or
\* /api/equipment, whose routers start with router.use(authenticate).
RouterUse ==
    \E t \in Tokens :
        /\ req' = [op |-> "routerUse", user |-> routerUseAuthenticate(t).user, id |-> "",
                   userId |-> 0, body |-> NoBody, token |-> t]
        /\ res' = routerUseAuthenticate(t).res
        /\ UNCHANGED db
        /\ UNCHANGED <<nodeEnv, pending>>

\* GET /api/users
GetAllUsers ==
    \E t \in Tokens :
        LET a == authenticate({"admin"}, t) IN
        /\ req' = [op |-> "getAllUsers", user |-> a.user, id |-> "", userId |-> 0,
                   body |-> NoBody, token |-> t]
        /\ res' = IF a.next THEN Response(200, "") ELSE a.res
        /\ UNCHANGED db
        /\ UNCHANGED <<nodeEnv, pending>>

\* GET /api/users/me
GetCurrentUser ==
    \E t \in Tokens :
        LET a == authenticate({}, t) IN
        /\ req' = [op |-> "getCurrentUser", user |-> a.user, id |-> "", userId |-> 0,
                   body |-> NoBody, token |-> t]
        /\ res' = IF a.next THEN Response(200, "") ELSE a.res
        /\ UNCHANGED db
        /\ UNCHANGED <<nodeEnv, pending>>

deleteUser(user, id) ==
    IF users[user].role # "admin" /\ user # id
    THEN Response(403, "Not authorized to delete this user")
    ELSE IF id \notin DOMAIN users
    THEN Response(404, "User not found")
    ELSE Response(200, "User deactivated successfully")

\* DELETE /api/users/:id
DeleteUser ==
    \E t \in Tokens, id \in UserIds \cup {UnknownUserId} :
        LET a == authenticate({}, t) IN
        /\ req' = [op |-> "deleteUser", user |-> a.user, id |-> "", userId |-> id,
                   body |-> NoBody, token |-> t]
        /\ res' = IF a.next THEN deleteUser(a.user, id) ELSE a.res
        /\ users' = IF res'.status = 200
                    THEN [users EXCEPT ![id].isActive = FALSE]
                    ELSE users
        /\ UNCHANGED <<bands, bandRow, userBand, bandAdmins, availabilities, rehearsals, lastLogin>>
        /\ UNCHANGED <<nodeEnv, pending>>

\* User.findOne({ where: { email } }): the rows with that email, of which
\* findOne returns one; userOf is that row's id.
findOneByEmail(email) == {u \in DOMAIN users : users[u].email = email}
userOf(email) == CHOOSE u \in findOneByEmail(email) : TRUE

\* A response of the user routes; data is the set of users whose data (row,
\* bands, availability records or rehearsals) the body carries.
UserResponse(status, message, data) ==
    [status |-> status, message |-> message, suggestedTimes |-> <<>>, data |-> data]

\* The ids a request to /api/users/:id names, every one of them of the
\* format the routes' param('id') validator accepts.
TargetIds == UserIds \cup {UnknownUserId}

getUserById(user, id) ==
    IF users[user].role # "admin" /\ user # id
    THEN UserResponse(403, "Not authorized to view this user", {})
    ELSE IF id \notin DOMAIN users
    THEN UserResponse(404, "User not found", {})
    ELSE UserResponse(200, "", {id})

\* GET /api/users/:id
GetUserById ==
    \E t \in Tokens, id \in TargetIds :
        LET a == authenticate({}, t) IN
        /\ req' = [op |-> "getUserById", user |-> a.user, id |-> "", userId |-> id,
                   body |-> NoBody, token |-> t]
        /\ res' = IF a.next THEN getUserById(a.user, id) ELSE a.res
        /\ UNCHANGED db
        /\ UNCHANGED <<nodeEnv, pending>>

\* Email addresses are written as positive numbers (user u starts with the
\* address u); -1 is a string that is no address, 0 a body without email.
isEmail(e) == e > 0

\* Of the profile columns an update writes the model keeps the email.
UpdateUserBodies == {[email |-> e] : e \in {0, -1, UnknownUserId}}

updateUserErrors(body) ==
    {f \in {"email"} : body.email # 0 /\ ~isEmail(body.email)}

\* updateUser without its check of the requester.
updateUserUnchecked(user, id, body) ==
    IF id \notin DOMAIN users
    THEN UserResponse(404, "User not found", {})
    ELSE IF body.email # 0 /\ findOneByEmail(body.email) \ {id} # {}
    THEN UserResponse(500, "Error updating user", {})
    ELSE UserResponse(200, "User updated successfully", {id})

\* The email column is unique: an update to an address another row has is
\* refused by the database and ends in the catch block.
updateUser(user, id, body) ==
    IF users[user].role # "admin" /\ user # id
    THEN UserResponse(403, "Not authorized to update this user", {})
    ELSE IF id \notin DOMAIN users
    THEN UserResponse(404, "User not found", {})
    ELSE IF body.email # 0 /\ findOneByEmail(body.email) \ {id} # {}
    THEN UserResponse(500, "Error updating user", {})
    ELSE UserResponse(200, "User updated successfully", {id})

\* PUT /api/users/:id.  The route runs its validators before authenticate():
\* a request they refuse ends with no req.user set.
UpdateUser ==
    \E t \in Tokens, id \in TargetIds, b \in UpdateUserBodies :
        LET a == authenticate({}, t) IN
        /\ req' = [op |-> "updateUser",
                   user |-> IF validate(updateUserErrors(b)) THEN a.user ELSE 0,
                   id |-> "", userId |-> id, body |-> b, token |-> t]
        /\ res' = IF ~validate(updateUserErrors(b))
                  THEN Response(400, "Validation failed")
                  ELSE IF a.next THEN updateUser(a.user, id, b) ELSE a.res
        \* email: email || user.email
        /\ users' = IF res'.status = 200 /\ b.email # 0
                    THEN [users EXCEPT ![id].email = b.email]
                    ELSE users
        /\ UNCHANGED <<bands, bandRow, userBand, bandAdmins, availabilities, rehearsals, lastLogin>>
        /\ UNCHANGED <<nodeEnv, pending>>

getUserBands(user, id) ==
    IF users[user].role # "admin" /\ user # id
    THEN UserResponse(403, "Not authorized to view this user's bands", {})
    ELSE IF id \notin DOMAIN users
    THEN UserResponse(404, "User not found", {})
    ELSE UserResponse(200, "", {id})

\* GET /api/users/:id/bands
GetUserBands ==
    \E t \in Tokens, id \in TargetIds :
        LET a == authenticate({}, t) IN
        /\ req' = [op |-> "getUserBands", user |-> a.user, id |-> "", userId |-> id,
                   body |-> NoBody, token |-> t]
        /\ res' = IF a.next THEN getUserBands(a.user, id) ELSE a.res
        /\ UNCHANGED db
        /\ UNCHANGED <<nodeEnv, pending>>

\* Availability.findAll({ where: { userId: id } }) is answered as a list,
\* also for an id no user has.
getUserAvailability(user, id) ==
    IF users[user].role # "admin" /\ user # id
    THEN UserResponse(403, "Not authorized to view this user's availability", {})
    ELSE UserResponse(200, "", {id})

\* GET /api/users/:id/availability
GetUserAvailability ==
    \E t \in Tokens, id \in TargetIds :
        LET a == authenticate({}, t) IN
        /\ req' = [op |-> "getUserAvailability", user |-> a.user, id |-> "", userId |-> id,
                   body |-> NoBody, token |-> t]
        /\ res' = IF a.next THEN getUserAvailability(a.user, id) ELSE a.res
        /\ UNCHANGED db
        /\ UNCHANGED <<nodeEnv, pending>>

getUserRehearsals(user, id) ==
    IF users[user].role # "admin" /\ user # id
    THEN UserResponse(403, "Not authorized to view this user's rehearsals", {})
    ELSE IF id \notin DOMAIN users
    THEN UserResponse(404, "User not found", {})
    ELSE UserResponse(200, "", {id})

\* GET /api/users/:id/rehearsals
GetUserRehearsals ==
    \E t \in Tokens, id \in TargetIds :
        LET a == authenticate({}, t) IN
        /\ req' = [op |-> "getUserRehearsals", user |-> a.user, id |-> "", userId |-> id,
                   body |-> NoBody, token |-> t]
        /\ res' = IF a.next THEN getUserRehearsals(a.user, id) ELSE a.res
        /\ UNCHANGED db
        /\ UNCHANGED <<nodeEnv, pending>>

\* Login bodies.  The email address of user u is written u, 0 is a body
\* without email; the password is the user's, another one, or missing.
LoginBodies ==
    {[email |-> e, password |-> pw] :
        e \in UserIds \cup {UnknownUserId}, pw \in {"correct", "wrong"}}
      \cup {[email |-> 0, password |-> "correct"], [email |-> 1, password |-> ""]}

loginErrors(body) ==
    {f \in {"email", "password"} :
        \/ f = "email" /\ body.email = 0
        \/ f = "password" /\ body.password = ""}

login(body) ==
    IF findOneByEmail(body.email) = {}
    THEN Response(401, "Invalid credentials")
    ELSE IF ~users[userOf(body.email)].isActive
    THEN Response(401, "Account is inactive")
    ELSE IF body.password # "correct"
    THEN Response(401, "Invalid credentials")
    ELSE Response(200, "Login successful")

\* POST /api/auth/login
Login ==
    \E b \in LoginBodies :
        /\ req' = [op |-> "login", user |-> 0, id |-> "", userId |-> 0, body |-> b,
                   token |-> NoToken]
        /\ res' = IF ~validate(loginErrors(b))
                  THEN Response(400, "Validation failed")
                  ELSE login(b)
        /\ lastLogin' = IF res'.status = 200
                        THEN [lastLogin EXCEPT ![userOf(b.email)] = TRUE]
                        ELSE lastLogin
        /\ UNCHANGED <<users, bands, bandRow, userBand, bandAdmins, availabilities, rehearsals>>
        /\ UNCHANGED <<nodeEnv, pending>>

\* The token of a refresh request travels in the body.
refreshToken(t) ==
    IF t.kind = "none"
    THEN Response(400, "Token is required")
    ELSE IF t.kind # "signed"
    THEN Response(401, "Token refresh failed")
    ELSE IF t.id \notin DOMAIN users \/ ~users[t.id].isActive
    THEN Response(401, "User not found or inactive")
    ELSE Response(200, "Token refreshed")

\* POST /api/auth/refresh
RefreshToken ==
    \E t \in Tokens :
        /\ req' = [op |-> "refreshToken", user |-> 0, id |-> "", userId |-> 0,
                   body |-> NoBody, token |-> t]
        /\ res' = refreshToken(t)
        /\ UNCHANGED db
        /\ UNCHANGED <<nodeEnv, pending>>

AuthNext ==
    Login \/ RefreshToken \/ GetAllUsers \/ GetCurrentUser \/ DeleteUser \/ RouterUse

\* Three active users, the first an application admin, none of whom has
\* logged in yet.
AuthInit ==
    /\ users = [u \in UserIds |-> [role |-> IF u = 1 THEN "admin" ELSE "user", isActive |-> TRUE,
                                 email |-> u]]
    /\ bands = {BandId}
    /\ bandRow = [b \in bands |-> [name |-> "The Band", isActive |-> TRUE]]
    /\ userBand = [b \in bands |-> {1}]
    /\ bandAdmins = userBand
    /\ availabilities = {}
    /\ rehearsals = {}
    /\ lastLogin = [u \in UserIds |-> FALSE]
    /\ nodeEnv = "production"
    /\ pending = {}
    /\ req = [op |-> "none", user |-> 0, id |-> "", userId |-> 0, body |-> NoBody]
    /\ res = [status |-> 0, message |-> "", suggestedTimes |-> <<>>]

AuthSpec == AuthInit /\ [][AuthNext]_vars

\* Addresses no user has at the start: two that register requests name and
\* one that no request ever registers.
NewEmails == {MaxUsers + 1, MaxUsers + 2}
StrangerEmail == MaxUsers + 3

\* The number of register requests that may be between their findOne and
\* their create at a time.
MaxInFlight == 2

\* Of the register fields the model keeps the email: 0 is a body without
\* one, -1 a string that is no address.
RegisterBodies == {[email |-> e] : e \in {0, -1, 1} \cup NewEmails}

registerErrors(body) ==
    {f \in {"email"} : body.email = 0 \/ ~isEmail(body.email)}

\* A response of register; token is the JWT of the body, NoToken where the
\* body has none.
RegisterResponse(status, message, token) ==
    [status |-> status, message |-> message, suggestedTimes |-> <<>>, token |-> token]

\* The id User.create gives the new row: one no row and no request has.
newUserId ==
    CHOOSE n \in 1..Cardinality(DOMAIN users) + 2 :
        /\ n \notin DOMAIN users \cup {0, UnknownUserId}
        /\ \A m \in 1..n - 1 : m \in DOMAIN users \cup {UnknownUserId}

\* register up to its first await: validation and
\* User.findOne({ where: { email } }).  A request that finds no user goes on
\* to User.create in a later step; other requests may run in between.
RegisterFind ==
    \E b \in RegisterBodies, r \in 1..MaxInFlight :
        /\ r \notin {p.rid : p \in pending}
        /\ req' = [op |-> "register", user |-> 0, id |-> "", userId |-> 0, body |-> b,
                   token |-> NoToken]
        /\ res' = IF ~validate(registerErrors(b))
                  THEN Response(400, "Validation failed")
                  ELSE IF findOneByEmail(b.email) # {}
                  THEN RegisterResponse(409, "User already exists with this email", NoToken)
                  ELSE NoResponse
        /\ pending' = IF res' = NoResponse
                      THEN pending \cup {[rid |-> r, email |-> b.email]}
                      ELSE pending
        /\ UNCHANGED db
        /\ UNCHANGED nodeEnv

\* The rest of register: User.create, jwt.sign and the 201.  The email column
\* is unique, so the insert of an address a row has by now throws and the
\* catch block answers.
RegisterCreate ==
    \E p \in pending :
        /\ req' = [op |-> "register", user |-> 0, id |-> "", userId |-> 0,
                   body |-> [email |-> p.email], token |-> NoToken]
        /\ res' = IF findOneByEmail(p.email) # {}
                  THEN RegisterResponse(500, "Registration failed", NoToken)
                  ELSE RegisterResponse(201, "User registered successfully",
                                        [kind |-> "signed", id |-> newUserId])
        /\ users' = IF res'.status = 201
                    THEN users @@ (newUserId :> [role |-> "user", isActive |-> TRUE,
                                                 email |-> p.email])
                    ELSE users
        /\ lastLogin' = IF res'.status = 201
                        THEN lastLogin @@ (newUserId :> FALSE)
                        ELSE lastLogin
        /\ pending' = pending \ {p}
        /\ UNCHANGED <<bands, bandRow, userBand, bandAdmins, availabilities, rehearsals>>
        /\ UNCHANGED nodeEnv

ForgotPasswordBodies == {[email |-> e] : e \in {0, 1, StrangerEmail} \cup NewEmails}

forgotPasswordErrors(body) ==
    {f \in {"email"} : body.email = 0 \/ ~isEmail(body.email)}

\* A response of forgotPassword; debug tells whether the body has the debug
\* object with resetToken and resetTokenExpiry (JSON leaves out a field
\* whose value is undefined).
ForgotResponse(status, message, debug) ==
    [status |-> status, message |-> message, suggestedTimes |-> <<>>, debug |-> debug]

forgotPassword(body) ==
    IF findOneByEmail(body.email) = {}
    THEN ForgotResponse(200, "If your account exists, a password reset link has been sent to your email",
                        FALSE)
    ELSE ForgotResponse(200, "If your account exists, a password reset link has been sent to your email",
                        nodeEnv = "development")

\* POST /api/auth/forgot-password
ForgotPassword ==
    \E b \in ForgotPasswordBodies :
        /\ req' = [op |-> "forgotPassword", user |-> 0, id |-> "", userId |-> 0, body |-> b,
                   token |-> NoToken]
        /\ res' = IF ~validate(forgotPasswordErrors(b))
                  THEN Response(400, "Validation failed")
                  ELSE forgotPassword(b)
        /\ UNCHANGED db
        /\ UNCHANGED <<nodeEnv, pending>>

\* The account routes of /api/auth, on a server started with NODE_ENV set
\* to development or to production.
AccountInit ==
    /\ users = [u \in UserIds |-> [role |-> IF u = 1 THEN "admin" ELSE "user", isActive |-> TRUE,
                                 email |-> u]]
    /\ bands = {BandId}
    /\ bandRow = [b \in bands |-> [name |-> "The Band", isActive |-> TRUE]]
    /\ userBand = [b \in bands |-> {1}]
    /\ bandAdmins = userBand
    /\ availabilities = {}
    /\ rehearsals = {}
    /\ lastLogin = [u \in UserIds |-> FALSE]
    /\ nodeEnv \in {"development", "production"}
    /\ pending = {}
    /\ req = [op |-> "none", user |-> 0, id |-> "", userId |-> 0, body |-> NoBody]
    /\ res = [status |-> 0, message |-> "", suggestedTimes |-> <<>>]

AccountNext == RegisterFind \/ RegisterCreate \/ ForgotPassword

AccountSpec == AccountInit /\ [][AccountNext]_vars

\* The routes of /api/users/:id.
UserNext ==
    \/ GetUserById \/ UpdateUser \/ DeleteUser
    \/ GetUserBands \/ GetUserAvailability \/ GetUserRehearsals

UserSpec == AuthInit /\ [][UserNext]_vars

----------------------------------------------------------------------------

Next == FindOptimalRehearsalTimes \/ RemoveMember

Spec == Init /\ [][Next]_vars

\* The find-optimal-times requests against a band of two members, users 2
\* and 3, with the Tuesday records or the expiring Monday records.
WeekInit ==
    /\ users = [u \in UserIds |-> [role |-> IF u = 1 THEN "admin" ELSE "user", isActive |-> TRUE,
                                 email |-> u]]
    /\ bands = {BandId}
    /\ bandRow = [b \in bands |-> [name |-> "The Band", isActive |-> TRUE]]
    /\ userBand = [b \in bands |-> {2, 3}]
    /\ bandAdmins = [b \in bands |-> {2}]
    /\ availabilities \in {TuesdayRecords, ExpiringRecords}
    /\ rehearsals = {}
    /\ lastLogin = [u \in UserIds |-> FALSE]
    /\ nodeEnv = "production"
    /\ pending = {}
    /\ req = [op |-> "none", user |-> 0, id |-> "", userId |-> 0, body |-> NoBody]
    /\ res = [status |-> 0, message |-> "", suggestedTimes |-> <<>>]

WeekNext == FindOptimalRehearsalTimes

WeekSpec == WeekInit /\ [][WeekNext]_vars

----------------------------------------------------------------------------
(* Vocabulary of the properties *)

\* The last request was a find-optimal-times request.
IsOptimalTimes == req.op = "findOptimalRehearsalTimes"

\* It was answered with a list of suggested slots.
Returned == IsOptimalTimes /\ res.status = 200

\* The candidate slots of the answer, as a set.
Slots == Range(res.suggestedTimes)

\* The roster of the band the request names (requests for it leave the
\* tables alone, so this is the roster the request saw).
Roster == IF req.id \in bands THEN userBand[req.id] ELSE {}

\* The request as the contract of the engine wants it: dates given and
\* ordered, duration in 30..480, minimumMembers at least 1 when given.
WindowOrdered ==
    /\ req.body.startDate.kind \in {"iso", "isoWeek"}
    /\ req.body.endDate.kind \in {"iso", "isoWeek"}
    /\ req.body.startDate.ms < req.body.endDate.ms

DurationInRange ==
    req.body.duration.given /\ req.body.duration.n >= 30 /\ req.body.duration.n <= 480

MinimumMembersOk ==
    req.body.minimumMembers.given => req.body.minimumMembers.n >= 1

ValidRequest == WindowOrdered /\ DurationInRange /\ MinimumMembersOk

\* Both dates of the request are in the calendar form.
CalendarDates == req.body.startDate.kind = "iso" /\ req.body.endDate.kind = "iso"

\* A valid request for an existing band by a requester with access, which
\* the database did not fail.
Served ==
    /\ IsOptimalTimes
    /\ ValidRequest
    /\ req.id \in bands
    /\ (users[req.user].role = "admin" \/ req.user \in Roster)
    /\ res.status # 500

\* The attendee threshold: minimumMembers, 1 when it is not given.
Threshold == IF req.body.minimumMembers.given THEN req.body.minimumMembers.n ELSE 1

\* Weekday (0 = Sunday), minute of the day and date of a time value, UTC.
dayOfWeekOf(t) == ((t \div MsPerDay) + 4) % 7
minuteOfDay(t) == (t % MsPerDay) \div MsPerMinute
dateOf(t) == t - (t % MsPerDay)

\* The availability record r makes its user free at the instant t.
Covers(r, t) ==
    /\ r.dayOfWeek = dayOfWeekOf(t)
    /\ r.startTime <= minuteOfDay(t)
    /\ minuteOfDay(t) < r.endTime
    /\ r.effectiveDate <= dateOf(t)
    /\ (r.expiryDate = <<>> \/ dateOf(t) < r.expiryDate[1])

HasRecord(m) == \E r \in availabilities : r.userId = m

FreeAt(m, t) == \E r \in availabilities : r.userId = m /\ Covers(r, t)

\* m is free during every minute of [start, start + minutes).
FreeThroughout(m, start, minutes) ==
    \A k \in 0..(minutes - 1) : FreeAt(m, start + k * MsPerMinute)

----------------------------------------------------------------------------
(* Properties *)

\* C1: for a valid request (here with calendar dates), every member listed
\* in a returned slot's availableMembers is free, by that member's
\* availability records, during the whole of [start, start + duration); a
\* member with no record or free for part of the slot only is not listed.
C1_AvailableMembersAreFree ==
    (Returned /\ ValidRequest /\ CalendarDates) =>
        \A slot \in Slots : \A m \in Range(slot.availableMembers) :
            FreeThroughout(m, slot.startTime.ms, req.body.duration.n)

\* C2: in every returned slot availableMembers and unavailableMembers are
\* disjoint and together are exactly the roster of the band, whatever the
\* size of the roster.
C2_MembersPartitionRoster ==
    Returned =>
        \A slot \in Slots :
            /\ Range(slot.availableMembers) \cap Range(slot.unavailableMembers) = {}
            /\ Range(slot.availableMembers) \cup Range(slot.unavailableMembers) = Roster

\* Slots were returned for a roster of two or more, so that both lists of
\* the first slot have members.
C2_Witness ==
    /\ Returned
    /\ Cardinality(Roster) >= 2
    /\ \E slot \in Slots : slot.availableMembers # <<>> /\ slot.unavailableMembers # <<>>

\* C3: every returned slot has a start and an end, the end exactly the
\* requested number of minutes after the start, whatever the start date.
C3_SlotLengthIsDuration ==
    Returned =>
        \A slot \in Slots :
            /\ slot.startTime.finite
            /\ slot.endTime.finite
            /\ slot.endTime.ms - slot.startTime.ms = req.body.duration.n * MsPerMinute

\* C4: every returned slot has at least minimumMembers available members,
\* at least 1 when minimumMembers is not given.
C4_SlotsMeetThreshold ==
    (Returned /\ ValidRequest) =>
        \A slot \in Slots : Len(slot.availableMembers) >= Threshold

\* C5: when minimumMembers exceeds the size of the roster the list of
\* suggested slots is empty.
C5_ThresholdAboveRosterGivesNone ==
    (Returned /\ ValidRequest /\ req.body.minimumMembers.given
              /\ req.body.minimumMembers.n > Cardinality(Roster)) =>
        res.suggestedTimes = <<>>

\* C6: for a band with an empty roster the answer is an empty list of
\* candidates, not an error.
C6_EmptyRosterGivesEmptyList ==
    (Served /\ Roster = {}) =>
        (res.status = 200 /\ res.suggestedTimes = <<>>)

\* C7: when no member of the roster has an availability record the answer
\* is an empty list, not an error.
C7_NoAvailabilityGivesEmptyList ==
    (Served /\ Roster # {} /\ \A m \in Roster : ~HasRecord(m)) =>
        (res.status = 200 /\ res.suggestedTimes = <<>>)

\* C8: every returned slot lies inside the query window (here of a valid
\* request with calendar dates): it starts at or after startDate and
\* start + duration is at or before endDate.
C8_SlotsInsideWindow ==
    (Returned /\ ValidRequest /\ CalendarDates) =>
        \A slot \in Slots :
            /\ slot.startTime.ms >= req.body.startDate.ms
            /\ slot.startTime.ms + req.body.duration.n * MsPerMinute <= req.body.endDate.ms

\* C9: the returned list (here of a valid request with calendar dates) is
\* ordered by number of available members, largest first, and by start
\* time, earliest first, among equals.
C9_RankedByAttendanceThenStart ==
    (Returned /\ ValidRequest /\ CalendarDates) =>
        \A i \in 1..(Len(res.suggestedTimes) - 1) :
            LET a == res.suggestedTimes[i]
                b == res.suggestedTimes[i + 1]
            IN  \/ Len(a.availableMembers) > Len(b.availableMembers)
                \/ /\ Len(a.availableMembers) = Len(b.availableMembers)
                   /\ a.startTime.ms <= b.startTime.ms

\* C10: a request whose endDate is not strictly after startDate, whose
\* duration is outside 30..480 or whose minimumMembers is below 1 is
\* rejected: it gets no list of suggested slots.
C10_InvalidRequestRejected ==
    (IsOptimalTimes /\ ~ValidRequest) =>
        (res.status # 200 /\ res.suggestedTimes = <<>>)

\* C11: two find-optimal-times requests in a row, the same request against
\* the same roster and the same availability records, both served, get the
\* same candidates in the same order.
C11_SameInputsSameCandidates ==
    [][(/\ IsOptimalTimes /\ res.status = 200
        /\ req' = req /\ res'.status = 200
        /\ userBand' = userBand /\ availabilities' = availabilities)
          => res'.suggestedTimes = res.suggestedTimes]_vars

\* C12: a find-optimal-times request, however it is answered (200, 400, 403,
\* 404 or 500), leaves every table as it was: users, bands, memberships and
\* their roles, availability records and rehearsals.
C12_NoSideEffects ==
    [][(req'.op = "findOptimalRehearsalTimes") => UNCHANGED db]_vars

\* A find-optimal-times request was served with its list of slots.
C12_Witness ==
    /\ Returned
    /\ Len(res.suggestedTimes) = 2
    /\ Roster # {}

\* C13: for the band of two members, one free every Tuesday 19:00-21:00 and
\* the other on Tuesday 1970-01-06 19:30-20:30 only, a request over that
\* week for 30 minutes and at least two members is answered with exactly one
\* candidate: it starts at 19:30 on that Tuesday and lists both members as
\* available.
C13_TuesdayOverlapIsTheOneCandidate ==
    (/\ IsOptimalTimes /\ req.id = BandId /\ req.body = WeekBody
     /\ Roster = {2, 3} /\ availabilities = TuesdayRecords
     /\ res.status # 500) =>
        /\ res.status = 200
        /\ Len(res.suggestedTimes) = 1
        /\ res.suggestedTimes[1].startTime = Time(Tue1930)
        /\ Range(res.suggestedTimes[1].availableMembers) = {2, 3}

\* C14: a member all of whose records are recurring is listed as available
\* for a slot on the date d (of a valid request with calendar dates) only if
\* one of the records has d's weekday and effectiveDate <= d, and
\* d < expiryDate when it has an expiry date: the occurrence on the expiry
\* date itself is excluded, one on endDate of a record without expiry is
\* not.
C14_RecurringRecordAppliesOnDate ==
    (Returned /\ ValidRequest /\ CalendarDates) =>
        \A slot \in Slots : \A m \in Range(slot.availableMembers) :
            (\A r \in availabilities : r.userId = m => r.isRecurring) =>
                \E r \in availabilities :
                    /\ r.userId = m
                    /\ r.dayOfWeek = dayOfWeekOf(slot.startTime.ms)
                    /\ r.effectiveDate <= dateOf(slot.startTime.ms)
                    /\ (r.expiryDate = <<>> \/ dateOf(slot.startTime.ms) < r.expiryDate[1])

\* The record an availability body describes ends after it starts and
\* expires after it takes effect.
EndAfterStart(r) ==
    /\ r.type = "one-time" =>
          /\ given(r.startTime) /\ given(r.endTime)
          /\ r.endTime.ms > r.startTime.ms
    /\ r.type = "recurring" =>
          r.endHour.n * 60 + r.endMinute.n > r.startHour.n * 60 + r.startMinute.n
    /\ given(r.expiryDate) => r.expiryDate.ms > r.effectiveDate.ms

\* The record t after an update with the fields the body b gives.
updated(t, b) ==
    [f \in DOMAIN NoFields |->
        IF f = "type" THEN t.type
        ELSE IF f \in {"startTime", "endTime", "effectiveDate", "expiryDate"}
        THEN (IF given(b[f]) THEN b[f] ELSE t[f])
        ELSE (IF b[f].given THEN b[f] ELSE t[f])]

\* The model's validators accept the record.
ModelAccepts(r) ==
    /\ isAfterStart(r.endTime, r.startTime)
    /\ isAfterEffective(r.expiryDate, r.effectiveDate)

\* C15: a record that the create route accepts and the model's validators
\* accept ends strictly after it starts (as times or as hour and minute)
\* and has its expiry date, when it has one, strictly after its effective
\* date; and so has a record that had these properties and was updated by a
\* body the update route accepts, also one giving only the end (time or
\* hour) or only the expiry date, when the model's validators accept the
\* outcome.
C15_AcceptedRecordEndsAfterStart ==
    /\ (req.op = "createAvailability" /\ res.status = 201 /\ ModelAccepts(req.body))
          => EndAfterStart(req.body)
    /\ (req.op = "updateAvailability" /\ res.status = 200) =>
          \A t \in CreateBodies :
              (/\ validate(createAvailabilityErrors(t))
               /\ EndAfterStart(t)
               /\ ModelAccepts(updated(t, req.body)))
                  => EndAfterStart(updated(t, req.body))

C17_BandAdminsAndAppAdminsOnly ==
    [][(/\ req'.op \in {"updateBand", "deleteBand", "addMember", "updateMemberRole"}
        /\ res'.message # "Validation failed"
        /\ req'.id \in bands)
          => IF \/ users[req'.user].role = "admin"
                \/ req'.user \in bandAdmins[req'.id]
             THEN res'.status \notin {403, 500}
             ELSE res'.status = 403 /\ UNCHANGED db]_vars

\* C18: a band that starts with a member with the role admin has one after
\* every sequence of add-member, remove-member (a member removing
\* themselves included) and update-member-role requests.
C18_BandKeepsAnAdmin ==
    \A b \in bands : bandAdmins[b] # {}

\* The roles the route of an operation passes to authenticate.
AllowedRoles(op) == IF op = "getAllUsers" THEN {"admin"} ELSE {}

\* C19: a request to a route behind the authentication middleware reaches
\* the controller only if it carries a Bearer token that verifies, for a
\* user who exists, is active and has a role the route allows; every other
\* request does not reach the controller and is answered 401 or 403.
C19_OnlyAuthenticatedReachController ==
    [][(req'.op \in {"getAllUsers", "getCurrentUser", "deleteUser", "routerUse"}) =>
          LET t == req'.token
              ok == /\ t.kind = "signed"
                    /\ t.id \in DOMAIN users
                    /\ users[t.id].isActive
                    /\ \/ AllowedRoles(req'.op) = {}
                       \/ users[t.id].role \in AllowedRoles(req'.op)
          IN  /\ req'.user # 0 => (ok /\ req'.user = t.id)
              /\ ~ok => (req'.user = 0 /\ res'.status \in {401, 403})]_vars

\* C20: a user who has been deactivated stays deactivated, and from then on
\* every login with the user's email address, every request through the
\* authentication middleware with a token signed for the user and every
\* refresh of such a token is answered 401.
C20_DeactivatedStaysOut ==
    [][\A u \in UserIds : ~users[u].isActive =>
          /\ ~users'[u].isActive
          /\ (/\ req'.op = "login"
              /\ req'.body.email = users[u].email
              /\ res'.message # "Validation failed") => res'.status = 401
          /\ (/\ req'.op \in {"getAllUsers", "getCurrentUser", "deleteUser",
                               "routerUse", "refreshToken"}
              /\ req'.token = [kind |-> "signed", id |-> u]) => res'.status = 401]_vars

\* C21: when the authenticated requester of a get-user, update-user,
\* delete-user, get-user-bands, get-user-availability or
\* get-user-rehearsals request is no application admin and names a user
\* other than themselves, the answer is 403, it carries no data of that
\* user and no row of Users changes.
C21_OthersAreForbidden ==
    [][(/\ req'.op \in {"getUserById", "updateUser", "deleteUser", "getUserBands",
                         "getUserAvailability", "getUserRehearsals"}
        /\ req'.user # 0
        /\ users[req'.user].role # "admin"
        /\ req'.userId # req'.user)
          => /\ res'.status = 403
             /\ users' = users
             /\ req'.op # "deleteUser" => res'.data = {}]_vars

\* A user who is no admin asked to update another user and was refused.
C21_Witness ==
    /\ req.op = "updateUser"
    /\ req.user # 0
    /\ users[req.user].role # "admin"
    /\ req.userId \in DOMAIN users
    /\ req.userId # req.user
    /\ req.body.email # 0
    /\ res.status = 403

\* C22: the answer to a forgot-password request does not tell whether the
\* address has an account: under the server's environment configuration,
\* status and body are those the handler gives any other address,
\* registered or not.
C22_ForgotPasswordTellsNothing ==
    (req.op = "forgotPassword" /\ validate(forgotPasswordErrors(req.body)))
        => \A b \in ForgotPasswordBodies :
               validate(forgotPasswordErrors(b)) => res = forgotPassword(b)

\* C23: an email address identifies one user.  However register requests
\* follow one another and interleave, no two users have the same address,
\* and a register request for an address that belongs to a user when it is
\* answered gets 409, leaves the users as they are and gets no token.
C23_OneUserPerEmail ==
    [][/\ \A u, v \in DOMAIN users' : users'[u].email = users'[v].email => u = v
       /\ (/\ req'.op = "register"
           /\ res' # NoResponse
           /\ findOneByEmail(req'.body.email) # {})
             => /\ res'.status = 409
                /\ users' = users
                /\ res'.token = NoToken]_vars

\* C24: a createBand request of an authenticated user with a valid name is
\* answered 201, and after it there is a new band of which the requester
\* is a member with the role admin.
C24_CreatorBecomesAdmin ==
    [][(/\ req'.op = "createBand"
        /\ req'.user # 0
        /\ validate(createBandErrors(req'.body)))
          => /\ res'.status = 201
             /\ \E b \in bands' \ bands :
                    /\ req'.user \in userBand'[b]
                    /\ req'.user \in bandAdmins'[b]]_vars

====
